---- MODULE Spec2Model ----
(***************************************************************************)
(* Model of src/main.py: the /generate handler that proxies a chat-style   *)
(* request to the Hugging Face Inference API, with its prompt builder,     *)
(* response-shape normalisation and answer extraction.                     *)
(*                                                                         *)
(* Python strings are sequences of one-character strings, so that split,   *)
(* strip, lower, join and the substring test are computed, not assumed.    *)
(***************************************************************************)
EXTENDS Integers, Sequences, FiniteSets, TLC

VARIABLES HF_TOKEN, MODEL_ID, pc, req, calls, resp, result, fn, arg, ret

vars == <<HF_TOKEN, MODEL_ID, pc, req, calls, resp, result, fn, arg, ret>>

(***************************************************************************)
(* Bounds                                                                  *)
(***************************************************************************)
NumReqs == 2       \* concurrently handled requests (SpecConc)
MaxTurns == 2      \* turns per messages list (SpecPrompt)
MaxPieces == 3     \* fragments per generated text (SpecExtract)

(***************************************************************************)
(* Python str operations                                                   *)
(***************************************************************************)
\* str.isspace() characters that occur in the modelled alphabet
Whitespace == {" ", "\n", "\t", "\r"}

UpperToLower ==
    [c \in {"A","B","C","D","E","F","G","H","I","J","K","L","M","N","O","P","Q",
            "R","S","T","U","V","W","X","Y","Z"} |->
       CASE c = "A" -> "a" [] c = "B" -> "b" [] c = "C" -> "c" [] c = "D" -> "d"
         [] c = "E" -> "e" [] c = "F" -> "f" [] c = "G" -> "g" [] c = "H" -> "h"
         [] c = "I" -> "i" [] c = "J" -> "j" [] c = "K" -> "k" [] c = "L" -> "l"
         [] c = "M" -> "m" [] c = "N" -> "n" [] c = "O" -> "o" [] c = "P" -> "p"
         [] c = "Q" -> "q" [] c = "R" -> "r" [] c = "S" -> "s" [] c = "T" -> "t"
         [] c = "U" -> "u" [] c = "V" -> "v" [] c = "W" -> "w" [] c = "X" -> "x"
         [] c = "Y" -> "y" [] c = "Z" -> "z"]

\* str.lower()
Lower(s) == [i \in 1..Len(s) |-> IF s[i] \in DOMAIN UpperToLower
                                  THEN UpperToLower[s[i]] ELSE s[i]]

\* str.strip(): drop leading and trailing whitespace
RECURSIVE LStrip(_)
LStrip(s) == IF s # <<>> /\ Head(s) \in Whitespace THEN LStrip(Tail(s)) ELSE s

RECURSIVE RStrip(_)
RStrip(s) == IF s # <<>> /\ s[Len(s)] \in Whitespace
             THEN RStrip(SubSeq(s, 1, Len(s) - 1)) ELSE s

Strip(s) == RStrip(LStrip(s))

\* s.startswith(p)
StartsWith(s, p) == Len(p) <= Len(s) /\ SubSeq(s, 1, Len(p)) = p

\* p in s, for strings
RECURSIVE Contains(_, _)
Contains(s, p) ==
    IF Len(s) < Len(p) THEN FALSE
    ELSE IF StartsWith(s, p) THEN TRUE
    ELSE Contains(Tail(s), p)

\* s.split(sep): scan left to right, cutting at each non-overlapping sep
RECURSIVE SplitFrom(_, _, _)
SplitFrom(s, sep, cur) ==
    IF s = <<>> THEN <<cur>>
    ELSE IF StartsWith(s, sep)
         THEN <<cur>> \o SplitFrom(SubSeq(s, Len(sep) + 1, Len(s)), sep, <<>>)
         ELSE SplitFrom(Tail(s), sep, Append(cur, Head(s)))

Split(s, sep) == SplitFrom(s, sep, <<>>)

\* sep.join(parts)
RECURSIVE Join(_, _)
Join(sep, parts) ==
    IF parts = <<>> THEN <<>>
    ELSE IF Len(parts) = 1 THEN parts[1]
    ELSE parts[1] \o sep \o Join(sep, Tail(parts))

(***************************************************************************)
(* String literals of the source                                           *)
(***************************************************************************)
NL == <<"\n">>
sUserLower == <<"u","s","e","r">>
sAssistantLower == <<"a","s","s","i","s","t","a","n","t">>
sUserPrefix == <<"U","s","e","r",":"," ">>
sAssistantPrefix == <<"A","s","s","i","s","t","a","n","t",":"," ">>
sAssistantCue == <<"A","s","s","i","s","t","a","n","t",":">>
sNLUser == <<"\n","U","s","e","r",":">>
sGeneratedText == <<"g","e","n","e","r","a","t","e","d","_","t","e","x","t">>
sEstimatedTime == <<"e","s","t","i","m","a","t","e","d","_","t","i","m","e">>
sError == <<"e","r","r","o","r">>

(***************************************************************************)
(* build_training_prompt                                                   *)
(***************************************************************************)
\* mutant: the role is compared as given, neither trimmed nor lower-cased
RenderTurnExactRole(m) ==
    IF m.role = sUserLower THEN <<sUserPrefix \o m.content>>
    ELSE IF m.role = sAssistantLower THEN <<sAssistantPrefix \o m.content>>
    ELSE <<>>

\* mutant: a turn with any other role is rendered as a user turn
RenderTurnDefaultUser(m) ==
    LET role == Lower(Strip(m.role)) IN
    IF role = sAssistantLower THEN <<sAssistantPrefix \o m.content>>
    ELSE <<sUserPrefix \o m.content>>

\* the loop body: the line one message appends, if any
RenderTurn(m) ==
    LET role == Lower(Strip(m.role)) IN
    IF role = sUserLower THEN <<sUserPrefix \o m.content>>
    ELSE IF role = sAssistantLower THEN <<sAssistantPrefix \o m.content>>
    ELSE <<>>

RECURSIVE RenderLines(_)
RenderLines(messages) ==
    IF messages = <<>> THEN <<>>
    ELSE RenderTurn(Head(messages)) \o RenderLines(Tail(messages))

build_training_prompt(messages) ==
    Join(NL, Append(RenderLines(messages), sAssistantCue))

(***************************************************************************)
(* Optional values (None or a value) and Python truthiness                 *)
(***************************************************************************)
None == [some |-> FALSE, v |-> <<>>]
Some(x) == [some |-> TRUE, v |-> x]

\* bool(x) for an Optional[str] or Optional[list]: None and empty are falsy
Truthy(o) == o.some /\ o.v # <<>>

(***************************************************************************)
(* Parsed JSON values, as r.json() returns them                            *)
(*   t: the Python type; s: str payload; n: number payload;                *)
(*   e: list elements; d: dict items in insertion order, each [k, v]       *)
(***************************************************************************)
JNull == [t |-> "null", s |-> <<>>, n |-> 0, e |-> <<>>, d |-> <<>>]
JBool(b) == [t |-> "bool", s |-> <<>>, n |-> b, e |-> <<>>, d |-> <<>>]
JNum(k) == [t |-> "num", s |-> <<>>, n |-> k, e |-> <<>>, d |-> <<>>]
JStr(x) == [t |-> "str", s |-> x, n |-> 0, e |-> <<>>, d |-> <<>>]
JList(xs) == [t |-> "list", s |-> <<>>, n |-> 0, e |-> xs, d |-> <<>>]
JDict(items) == [t |-> "dict", s |-> <<>>, n |-> 0, e |-> <<>>, d |-> items]
Item(key, val) == [k |-> key, v |-> val]

HasKey(x, key) == \E i \in 1..Len(x.d) : x.d[i].k = key
GetKey(x, key) == x.d[CHOOSE i \in 1..Len(x.d) : x.d[i].k = key].v

\* `key in x` raises TypeError unless x is a container or a str
InRaises(x) == x.t \in {"null", "bool", "num"}

\* `key in x` for a str key: dict -> key test, list -> element test, str -> substring
InValue(key, x) ==
    CASE x.t = "dict" -> HasKey(x, key)
      [] x.t = "list" -> \E i \in 1..Len(x.e) : x.e[i].t = "str" /\ x.e[i].s = key
      [] x.t = "str" -> Contains(x.s, key)
      [] OTHER -> FALSE

\* x[key] for a str key raises unless x is a dict holding the key
SubscriptRaises(x, key) == ~(x.t = "dict" /\ HasKey(x, key))

(***************************************************************************)
(* json.dumps with its default separators and ensure_ascii                 *)
(***************************************************************************)
Digit(k) == CASE k = 0 -> "0" [] k = 1 -> "1" [] k = 2 -> "2" [] k = 3 -> "3"
              [] k = 4 -> "4" [] k = 5 -> "5" [] k = 6 -> "6" [] k = 7 -> "7"
              [] k = 8 -> "8" [] k = 9 -> "9"

RECURSIVE NumStr(_)
NumStr(k) == IF k < 10 THEN <<Digit(k)>> ELSE NumStr(k \div 10) \o <<Digit(k % 10)>>

EscapeChar(c) ==
    CASE c = "\"" -> <<"\\", "\"">>
      [] c = "\\" -> <<"\\", "\\">>
      [] c = "\n" -> <<"\\", "n">>
      [] c = "\t" -> <<"\\", "t">>
      [] c = "\r" -> <<"\\", "r">>
      [] OTHER -> <<c>>

RECURSIVE Escape(_)
Escape(s) == IF s = <<>> THEN <<>> ELSE EscapeChar(Head(s)) \o Escape(Tail(s))

Quote(s) == <<"\"">> \o Escape(s) \o <<"\"">>

RECURSIVE Dumps(_)
RECURSIVE DumpElems(_)
RECURSIVE DumpItems(_)
DumpElems(xs) ==
    IF xs = <<>> THEN <<>>
    ELSE IF Len(xs) = 1 THEN Dumps(xs[1])
    ELSE Dumps(xs[1]) \o <<",", " ">> \o DumpElems(Tail(xs))

DumpItems(items) ==
    IF items = <<>> THEN <<>>
    ELSE LET one == Quote(items[1].k) \o <<":", " ">> \o Dumps(items[1].v) IN
         IF Len(items) = 1 THEN one
         ELSE one \o <<",", " ">> \o DumpItems(Tail(items))

Dumps(x) ==
    CASE x.t = "null" -> <<"n","u","l","l">>
      [] x.t = "bool" -> IF x.n = 1 THEN <<"t","r","u","e">> ELSE <<"f","a","l","s","e">>
      [] x.t = "num" -> NumStr(x.n)
      [] x.t = "str" -> Quote(x.s)
      [] x.t = "list" -> <<"[">> \o DumpElems(x.e) \o <<"]">>
      [] x.t = "dict" -> <<"{">> \o DumpItems(x.d) \o <<"}">>

(***************************************************************************)
(* Outcomes of the handler                                                 *)
(***************************************************************************)
NoResult == [kind |-> "none", status |-> 0, detail |-> "", output |-> <<>>,
             estimated_time |-> JNull]

\* raise HTTPException(status, detail)
HTTPException(status, detail) ==
    [kind |-> "HTTPException", status |-> status, detail |-> detail,
     output |-> <<>>, estimated_time |-> JNull]

\* any other exception raised inside the try block
PyException(name) ==
    [kind |-> "Exception", status |-> 0, detail |-> name, output |-> <<>>,
     estimated_time |-> JNull]

\* return {"output": output}
ReturnOutput(output) ==
    [kind |-> "output", status |-> 200, detail |-> "", output |-> output,
     estimated_time |-> JNull]

\* return {"status": "loading", "estimated_time": ...}
ReturnLoading(et) ==
    [kind |-> "loading", status |-> 200, detail |-> "", output |-> <<>>,
     estimated_time |-> et]

(***************************************************************************)
(* generate, after the backend answered: lines 166-213                     *)
(***************************************************************************)
\* "Normalize common shapes": [raised, generated]
NormalizeCommonShapes(data) ==
    LET nonEmptyList == data.t = "list" /\ data.e # <<>> IN
    IF nonEmptyList /\ InRaises(data.e[1])
    THEN [raised |-> TRUE, generated |-> JNull]      \* TypeError on `in`
    ELSE IF nonEmptyList /\ InValue(sGeneratedText, data.e[1])
    THEN IF SubscriptRaises(data.e[1], sGeneratedText)
         THEN [raised |-> TRUE, generated |-> JNull] \* TypeError on data[0][...]
         ELSE [raised |-> FALSE, generated |-> GetKey(data.e[1], sGeneratedText)]
    ELSE IF data.t = "dict" /\ HasKey(data, sGeneratedText)
    THEN [raised |-> FALSE, generated |-> GetKey(data, sGeneratedText)]
    ELSE [raised |-> FALSE, generated |-> JStr(Dumps(data))]

\* mutant: the reply after the first "Assistant:" is taken, not the last
ExtractFirstReply(generated) ==
    IF Contains(generated, sAssistantCue)
    THEN LET ans == Split(generated, sAssistantCue)[2]
         IN  IF Contains(ans, sNLUser)
             THEN Strip(Split(ans, sNLUser)[1])
             ELSE Strip(ans)
    ELSE Strip(generated)

\* "Extract only the assistant's latest reply", for a str
ExtractLatestReply(generated) ==
    IF Contains(generated, sAssistantCue)
    THEN LET parts == Split(generated, sAssistantCue)
             ans == parts[Len(parts)]
         IN  IF Contains(ans, sNLUser)
             THEN Strip(Split(ans, sNLUser)[1])
             ELSE Strip(ans)
    ELSE Strip(generated)

\* the same lines for whatever value `generated` holds: [raised, output]
ExtractStep(generated) ==
    IF InRaises(generated)
    THEN [raised |-> TRUE, output |-> <<>>]          \* TypeError on `in`
    ELSE IF generated.t # "str"
         THEN [raised |-> TRUE, output |-> <<>>]     \* no .split / .strip
         ELSE [raised |-> FALSE, output |-> ExtractLatestReply(generated.s)]

\* mutant: every 503 is reported as loading, data.get("estimated_time")
ColdStartAlwaysLoading(r) ==
    LET data == IF r.json_ok THEN r.data ELSE JDict(<<>>) IN
    IF data.t = "dict" /\ HasKey(data, sEstimatedTime)
    THEN ReturnLoading(GetKey(data, sEstimatedTime))
    ELSE ReturnLoading(JNull)

\* "Cold start case"
ColdStart(r) ==
    LET data == IF r.json_ok THEN r.data ELSE JDict(<<>>) IN
    IF data.t = "dict" /\ HasKey(data, sEstimatedTime)
    THEN ReturnLoading(GetKey(data, sEstimatedTime))
    ELSE HTTPException(503, "Model loading on Hugging Face; retry shortly")

\* "Other HTTP errors"
OtherHTTPError(r) ==
    LET err == IF r.json_ok THEN r.data ELSE JDict(<<Item(sError, <<>>)>>) IN
    IF err.t # "dict"
    THEN PyException("AttributeError")               \* err.get on a non-dict
    ELSE HTTPException(r.status_code, "HuggingFace error")

\* "Success path"
SuccessPath(r) ==
    IF ~r.json_ok
    THEN HTTPException(502, "Bad response from HF (non-JSON)")
    ELSE LET norm == NormalizeCommonShapes(r.data) IN
         IF norm.raised THEN PyException("TypeError")
         ELSE LET ext == ExtractStep(norm.generated) IN
              IF ext.raised THEN PyException("TypeError")
              ELSE ReturnOutput(ext.output)

\* mutant: only 5xx answers are treated as errors
TryBodyServerErrorsOnly(r) ==
    IF r.kind # "http" THEN PyException(r.kind)
    ELSE IF r.status_code = 503 THEN ColdStart(r)
    ELSE IF r.status_code >= 500 THEN OtherHTTPError(r)
    ELSE SuccessPath(r)

\* the body of the try block once client.post has returned or raised
TryBody(r) ==
    IF r.kind # "http" THEN PyException(r.kind)      \* httpx timeout / transport error
    ELSE IF r.status_code = 503 THEN ColdStart(r)
    ELSE IF r.status_code >= 400 THEN OtherHTTPError(r)
    ELSE SuccessPath(r)

\* mutant: no catch-all clause, the exception escapes the handler
ExceptClausesReraise(out) == out

\* except HTTPException: raise / except Exception: raise HTTPException(500, ...)
ExceptClauses(out) ==
    IF out.kind = "Exception"
    THEN HTTPException(500, "Internal error; check server logs for details")
    ELSE out

(***************************************************************************)
(* Configuration read at import time: lines 35-36                          *)
(***************************************************************************)
sTok == <<"h","f","_","x">>
sModel == <<"o","r","g","/","m">>

\* what os.getenv can return for the token variable
EnvTokens == {None, Some(<<>>), Some(sTok)}
\* what os.getenv can return for the model variable
EnvModels == {None, Some(<<" ">>), Some(sModel), Some(<<" ">> \o sModel \o NL)}

\* (os.getenv(...) or "").strip()
LoadModelId(env) == Strip(IF Truthy(env) THEN env.v ELSE <<>>)

\* _hf_headers(): [raised, headers]
hf_headers(token) ==
    IF ~Truthy(token)
    THEN [raised |-> TRUE, Authorization |-> <<>>]
    ELSE [raised |-> FALSE, Authorization |-> <<"B","e","a","r","e","r"," ">> \o token.v]

(***************************************************************************)
(* generate, up to the await of client.post: lines 133-164                 *)
(*   [raised, error, url, headers, inputs]                                 *)
(***************************************************************************)
NoCall(error) == [raised |-> TRUE, error |-> error, model |-> <<>>,
                  Authorization |-> <<>>, inputs |-> <<>>]

\* mutant: the request is not validated, an absent prompt is sent as empty
BeforePostNoValidation(token, model, rq) ==
    IF model = <<>>
    THEN NoCall(HTTPException(500, "MODEL_ID is not set on the server"))
    ELSE IF ~Truthy(token)
    THEN NoCall(HTTPException(500, "HF_TOKEN is not set on the server"))
    ELSE LET prompt == IF Truthy(rq.messages)
                       THEN build_training_prompt(rq.messages.v)
                       ELSE sUserPrefix \o rq.prompt.v \o NL \o sAssistantCue
         IN  [raised |-> FALSE, error |-> NoResult, model |-> model,
              Authorization |-> hf_headers(token).Authorization, inputs |-> prompt]

\* mutant: the token is not checked, the call goes out without credentials
BeforePostNoTokenCheck(token, model, rq) ==
    IF model = <<>>
    THEN NoCall(HTTPException(500, "MODEL_ID is not set on the server"))
    ELSE IF ~Truthy(rq.messages) /\ ~Truthy(rq.prompt)
    THEN NoCall(HTTPException(400, "Provide either 'prompt' or 'messages'"))
    ELSE LET prompt == IF Truthy(rq.messages)
                       THEN build_training_prompt(rq.messages.v)
                       ELSE sUserPrefix \o rq.prompt.v \o NL \o sAssistantCue
         IN  [raised |-> FALSE, error |-> NoResult, model |-> model,
              Authorization |-> hf_headers(token).Authorization, inputs |-> prompt]

BeforePost(token, model, rq) ==
    IF model = <<>>
    THEN NoCall(HTTPException(500, "MODEL_ID is not set on the server"))
    ELSE IF ~Truthy(token)
    THEN NoCall(HTTPException(500, "HF_TOKEN is not set on the server"))
    ELSE IF ~Truthy(rq.messages) /\ ~Truthy(rq.prompt)
    THEN NoCall(HTTPException(400, "Provide either 'prompt' or 'messages'"))
    ELSE LET prompt == IF Truthy(rq.messages)
                       THEN build_training_prompt(rq.messages.v)
                       ELSE sUserPrefix \o rq.prompt.v \o NL \o sAssistantCue
             h == hf_headers(token)
         IN  IF h.raised
             THEN NoCall(HTTPException(500, "HF_TOKEN is not set on the server"))
             ELSE [raised |-> FALSE, error |-> NoResult, model |-> model,
                   Authorization |-> h.Authorization, inputs |-> prompt]

\* mutant: the response is kept in one slot shared by all handlers
AwaitedResponseShared(all, r) == all[1]

\* the response the handler of request r reads after its await
AwaitedResponse(all, r) == all[r]

(***************************************************************************)
(* Actions: one per run of the handler between suspension points           *)
(***************************************************************************)
NoResponse == [kind |-> "none", status_code |-> 0, json_ok |-> FALSE, data |-> JNull]

\* a request arrives and the handler runs until it awaits the backend or raises
Begin(r, Inputs) ==
    /\ pc[r] = "idle"
    /\ \E rq \in Inputs :
         LET b == BeforePost(HF_TOKEN, MODEL_ID, rq) IN
         /\ req' = [req EXCEPT ![r] = rq]
         /\ IF b.raised
            THEN /\ pc' = [pc EXCEPT ![r] = "done"]
                 /\ result' = [result EXCEPT ![r] = b.error]
                 /\ calls' = calls
            ELSE /\ pc' = [pc EXCEPT ![r] = "awaiting"]
                 /\ calls' = [calls EXCEPT ![r] =
                       Append(@, [model |-> b.model, Authorization |-> b.Authorization,
                                  inputs |-> b.inputs])]
                 /\ result' = result
    /\ UNCHANGED <<HF_TOKEN, MODEL_ID, resp, fn, arg, ret>>

\* the backend answers (or the call fails) and the handler runs to its end
Resume(r, Responses) ==
    /\ pc[r] = "awaiting"
    /\ \E rs \in Responses :
         /\ resp' = [resp EXCEPT ![r] = rs]
         /\ result' = [result EXCEPT ![r] = ExceptClauses(TryBody(AwaitedResponse(resp', r)))]
    /\ pc' = [pc EXCEPT ![r] = "done"]
    /\ UNCHANGED <<HF_TOKEN, MODEL_ID, req, calls, fn, arg, ret>>

NoRequest == [prompt |-> None, messages |-> None]

InitOver(R) ==
    /\ \E t \in EnvTokens, m \in EnvModels :
         /\ HF_TOKEN = t
         /\ MODEL_ID = LoadModelId(m)
    /\ pc = [r \in R |-> "idle"]
    /\ req = [r \in R |-> NoRequest]
    /\ calls = [r \in R |-> <<>>]
    /\ resp = [r \in R |-> NoResponse]
    /\ result = [r \in R |-> NoResult]
    /\ fn = "none"
    /\ arg = <<>>
    /\ ret = None

(***************************************************************************)
(* Inputs                                                                  *)
(***************************************************************************)
sHi == <<"h","i">>
sHello == <<"h","e","l","l","o">>
sPadded == <<" "," ","o","k"," ","\n">>
sEcho == <<"U","s","e","r",":"," ","h","i","\n","A","s","s","i","s","t","a","n","t",":"," ","h","e","l","l","o">>
sScenario == <<"U","s","e","r",":"," ","h","i","\n","A","s","s","i","s","t","a","n","t",":"," ","h","e","l","l","o","\n","U","s","e","r",":"," ","b","y","e","\n","A","s","s","i","s","t","a","n","t",":"," ","g","o","o","d","b","y","e","\n","U","s","e","r",":">>
sGoodbye == <<"g","o","o","d","b","y","e">>

Msg(role, content) == [role |-> role, content |-> content]
GenerateReq(prompt, messages) == [prompt |-> prompt, messages |-> messages]

rUser == <<"u","s","e","r">>
rUserMixed == <<" ","U","S","E","R","\n">>
rAssistant == <<"a","s","s","i","s","t","a","n","t">>
rAssistantCap == <<"A","s","s","i","s","t","a","n","t"," ">>
rSystem == <<"s","y","s","t","e","m">>
rUsers == <<"u","s","e","r","s">>
rSpaced == <<"u","s"," ","e","r">>

\* request bodies of the single-request specification
Prompts == {None, Some(<<>>), Some(sHi)}
MessageLists ==
    {None, Some(<<>>),
     Some(<<Msg(rUser, sHi)>>),
     Some(<<Msg(rSystem, sHi)>>),
     Some(<<Msg(rSystem, sHi), Msg(rUsers, sHello)>>),
     Some(<<Msg(rUserMixed, sHi), Msg(rAssistantCap, sHello)>>),
     Some(<<Msg(rSystem, sHello), Msg(rUser, sHi)>>)}
Requests == {GenerateReq(p, m) : p \in Prompts, m \in MessageLists}

\* bodies a backend can send
JsonBodies ==
    {JList(<<JDict(<<Item(sGeneratedText, JStr(sEcho))>>)>>),
     JList(<<JDict(<<Item(sGeneratedText, JNum(7))>>)>>),
     JList(<<JDict(<<Item(sError, JStr(sHi))>>)>>),
     JList(<<>>),
     JList(<<JNum(1)>>),
     JList(<<JNull>>),
     JList(<<JStr(sHi)>>),
     JList(<<JStr(sGeneratedText)>>),
     JList(<<JList(<<JStr(sGeneratedText)>>)>>),
     JList(<<JList(<<>>)>>),
     JDict(<<Item(sGeneratedText, JStr(sPadded))>>),
     JDict(<<Item(sGeneratedText, JNum(5))>>),
     JDict(<<Item(sGeneratedText, JNull)>>),
     JDict(<<Item(sGeneratedText, JList(<<JStr(sAssistantCue)>>))>>),
     JDict(<<Item(sGeneratedText, JList(<<>>))>>),
     JDict(<<>>),
     JDict(<<Item(sError, JStr(sAssistantPrefix \o sHi \o sNLUser))>>),
     JDict(<<Item(sEstimatedTime, JNum(20))>>),
     JDict(<<Item(sError, JStr(sHi)), Item(sEstimatedTime, JNum(20))>>),
     JNum(5), JStr(sHello), JNull, JBool(1)}

StatusCodes == {200, 401, 403, 404, 429, 500, 503}

HttpResponse(code, ok, data) ==
    [kind |-> "http", status_code |-> code, json_ok |-> ok, data |-> data]
\* httpx.TimeoutException / httpx.ConnectError raised by client.post
Failure(kind) == [kind |-> kind, status_code |-> 0, json_ok |-> FALSE, data |-> JNull]

Responses ==
    {HttpResponse(c, TRUE, d) : c \in StatusCodes, d \in JsonBodies}
    \cup {HttpResponse(c, FALSE, JNull) : c \in StatusCodes}
    \cup {Failure("TimeoutException"), Failure("ConnectError")}

\* the smaller sets of the concurrent specification
FewRequests ==
    {GenerateReq(None, None), GenerateReq(Some(sHi), None),
     GenerateReq(None, Some(<<Msg(rUser, sHello)>>))}
FewResponses ==
    {HttpResponse(200, TRUE, JList(<<JDict(<<Item(sGeneratedText, JStr(sEcho))>>)>>)),
     HttpResponse(200, TRUE, JDict(<<Item(sGeneratedText, JStr(sPadded))>>)),
     HttpResponse(503, TRUE, JDict(<<Item(sEstimatedTime, JNum(20))>>)),
     HttpResponse(404, TRUE, JDict(<<Item(sError, JStr(sHi))>>)),
     Failure("TimeoutException")}

(***************************************************************************)
(* Specifications of the handler                                           *)
(***************************************************************************)
Reqs == 1..NumReqs

Init == InitOver({1})
Next == Begin(1, Requests) \/ Resume(1, Responses)
Spec == Init /\ [][Next]_vars

InitConc == InitOver(Reqs)
BeginConc == \E r \in Reqs : Begin(r, FewRequests)
ResumeConc == \E r \in Reqs : Resume(r, FewResponses)
NextConc == BeginConc \/ ResumeConc
SpecConc == InitConc /\ [][NextConc]_vars

(***************************************************************************)
(* Specifications of the pure parts: the input is drawn in the initial     *)
(* state and one action applies the function                               *)
(***************************************************************************)
NoHandler ==
    /\ HF_TOKEN = None
    /\ MODEL_ID = <<>>
    /\ pc = <<>>
    /\ req = <<>>
    /\ calls = <<>>
    /\ resp = <<>>
    /\ result = <<>>

SeqsUpTo(S, n) == UNION {[1..k -> S] : k \in 0..n}

sTwoLines == <<"a","\n","b">>
Roles == {rUser, rUserMixed, rAssistant, rAssistantCap, rSystem, rUsers, rSpaced, <<>>}
Contents == {sHi, <<>>, sTwoLines, sAssistantCue}
Turns == {Msg(r, c) : r \in Roles, c \in Contents}

InitPrompt ==
    /\ NoHandler
    /\ fn = "build_training_prompt"
    /\ arg \in SeqsUpTo(Turns, MaxTurns)
    /\ ret = None

CallBuild ==
    /\ fn = "build_training_prompt"
    /\ ~ret.some
    /\ ret' = Some(build_training_prompt(arg))
    /\ UNCHANGED <<HF_TOKEN, MODEL_ID, pc, req, calls, resp, result, fn, arg>>

NextPrompt == CallBuild
SpecPrompt == InitPrompt /\ [][NextPrompt]_vars

\* fragments a backend's generated text is made of
Pieces == {sAssistantCue, sNLUser, <<" ">>, NL, sHi,
           <<"U","s","e","r",":">>, <<"A","s","s","i","s","t","a","n","t">>}

RECURSIVE TextsOf(_)
TextsOf(n) ==
    IF n = 0 THEN {<<>>}
    ELSE LET shorter == TextsOf(n - 1) IN
         shorter \cup {t \o p : t \in shorter, p \in Pieces}

InitExtract ==
    /\ NoHandler
    /\ fn = "extract"
    /\ arg \in TextsOf(MaxPieces) \cup {sScenario, sEcho, sPadded}
    /\ ret = None

CallExtract ==
    /\ fn = "extract"
    /\ ~ret.some
    /\ ret' = Some(ExtractLatestReply(arg))
    /\ UNCHANGED <<HF_TOKEN, MODEL_ID, pc, req, calls, resp, result, fn, arg>>

NextExtract == CallExtract
SpecExtract == InitExtract /\ [][NextExtract]_vars

(***************************************************************************)
(* Vocabulary of the properties                                            *)
(***************************************************************************)
Handled == DOMAIN pc
Done(r) == pc[r] = "done"
ConfigPresent == MODEL_ID # <<>> /\ Truthy(HF_TOKEN)
TimedOut(r) == Done(r) /\ resp[r].kind = "TimeoutException"
AuthOrResourceError(r) ==
    Done(r) /\ resp[r].kind = "http" /\ resp[r].status_code \in {401, 403, 404}
InternalError == HTTPException(500, "Internal error; check server logs for details")
InvalidRequest == HTTPException(400, "Provide either 'prompt' or 'messages'")
ConfigurationMissing ==
    {HTTPException(500, "MODEL_ID is not set on the server"),
     HTTPException(500, "HF_TOKEN is not set on the server")}

\* the calls of request r are n >= 1 attempts against the primary backend
\* followed by one attempt against another (fallback) backend
RetriesThenFallback(r, n) ==
    /\ Len(calls[r]) = n + 1
    /\ \A i \in 1..n : calls[r][i].model = MODEL_ID
    /\ calls[r][n + 1].model # MODEL_ID

NeitherSupplied(r) == Done(r) /\ ~req[r].prompt.some /\ ~req[r].messages.some

C3_AlwaysInvalidRequest ==
    \A r \in Handled :
        NeitherSupplied(r) => result[r] = InvalidRequest /\ calls[r] = <<>>

(***************************************************************************)
(* C3 (amended): a request with neither prompt nor messages makes no       *)
(* outbound call and ends in the 400 InvalidRequest error when the model   *)
(* identifier and the token are configured, and in the 500                 *)
(* ConfigurationMissing error when one of them is absent.                  *)
(***************************************************************************)
C3_InvalidRequestWhenConfigured ==
    \A r \in Handled :
        NeitherSupplied(r) =>
            /\ calls[r] = <<>>
            /\ ConfigPresent => result[r] = InvalidRequest
            /\ ~ConfigPresent => result[r] \in ConfigurationMissing

C3_Witness ==
    \E r \in Handled : NeitherSupplied(r) /\ ConfigPresent /\ result[r].status = 400

(***************************************************************************)
(* C4 (as claimed): a 200 answer, whatever its body, always yields an      *)
(* output string and never an error.                                       *)
(***************************************************************************)
C4_Every200YieldsOutput ==
    \A r \in Handled :
        (Done(r) /\ resp[r].kind = "http" /\ resp[r].status_code = 200)
            => result[r].kind = "output"

C4_WitnessShape ==
    \E r \in Handled :
        /\ Done(r) /\ resp[r].kind = "http" /\ resp[r].status_code = 200
        /\ resp[r].data = JList(<<JNum(1)>>)
        /\ result[r] = InternalError

(***************************************************************************)
(* C5: the transcript build_training_prompt returns ends with the line     *)
(* "Assistant:" and holds before it, in the original order, exactly the    *)
(* rendering "User: <content>" or "Assistant: <content>" of each turn      *)
(* whose trimmed, lower-cased role is user or assistant; any other turn    *)
(* contributes nothing.                                                    *)
(***************************************************************************)
\* the roles of the inputs, classified by hand
UserRoles == {rUser, rUserMixed}
AssistantRoles == {rAssistant, rAssistantCap}
UnrecognizedRoles == {rSystem, rUsers, rSpaced, <<>>}

IsValidTurn(m) == m.role \in UserRoles \cup AssistantRoles
Rendered(m) ==
    (IF m.role \in UserRoles THEN sUserPrefix ELSE sAssistantPrefix) \o m.content

RECURSIVE ConcatAll(_)
ConcatAll(xs) == IF xs = <<>> THEN <<>> ELSE Head(xs) \o ConcatAll(Tail(xs))

CountOf(s, c) == Cardinality({i \in 1..Len(s) : s[i] = c})

\* the text after the last newline of s
LastLine(s) ==
    LET breaks == {i \in 1..Len(s) : s[i] = "\n"}
        last == IF breaks = {} THEN 0
                ELSE CHOOSE i \in breaks : \A j \in breaks : j <= i
    IN  SubSeq(s, last + 1, Len(s))

PromptBuilt == fn = "build_training_prompt" /\ ret.some

C5_CanonicalTranscript ==
    PromptBuilt =>
        LET valid == SelectSeq(arg, IsValidTurn)
            body == [i \in 1..Len(valid) |-> Rendered(valid[i]) \o NL]
        IN  /\ LastLine(ret.v) = sAssistantCue
            /\ ret.v = ConcatAll(body) \o sAssistantCue
            /\ CountOf(ret.v, "\n")
                 = Len(valid) + CountOf(ConcatAll([i \in 1..Len(valid) |-> valid[i].content]), "\n")

C5_Witness ==
    /\ PromptBuilt
    /\ Len(arg) = 2
    /\ arg[1].role = rUserMixed /\ arg[1].content = sHi
    /\ arg[2].role = rSystem
    /\ ret.v = sUserPrefix \o sHi \o NL \o sAssistantCue

(***************************************************************************)
(* C6: the extracted answer is, when the text contains "Assistant:", the   *)
(* trimmed segment from after the last "Assistant:" up to the first        *)
(* following "\nUser:" (or the end of the text), and otherwise the trimmed *)
(* text; the transcript "User: hi\nAssistant: hello\nUser: bye\n           *)
(* Assistant: goodbye\nUser:" yields "goodbye".                            *)
(***************************************************************************)
Occurrences(s, p) ==
    {i \in 1..(Len(s) - Len(p) + 1) : SubSeq(s, i, i + Len(p) - 1) = p}
Largest(S) == CHOOSE i \in S : \A j \in S : j <= i
Smallest(S) == CHOOSE i \in S : \A j \in S : i <= j

Trimmed(s) ==
    LET solid == {i \in 1..Len(s) : s[i] \notin Whitespace} IN
    IF solid = {} THEN <<>> ELSE SubSeq(s, Smallest(solid), Largest(solid))

ExpectedAnswer(s) ==
    LET marks == Occurrences(s, sAssistantCue) IN
    IF marks = {} THEN Trimmed(s)
    ELSE LET tail == SubSeq(s, Largest(marks) + Len(sAssistantCue), Len(s))
             stops == Occurrences(tail, sNLUser)
         IN  Trimmed(IF stops = {} THEN tail
                     ELSE SubSeq(tail, 1, Smallest(stops) - 1))

Extracted == fn = "extract" /\ ret.some

C6_LatestReplyExtracted ==
    Extracted =>
        /\ ret.v = ExpectedAnswer(arg)
        /\ arg = sScenario => ret.v = sGoodbye

C6_Witness == Extracted /\ arg = sScenario /\ ret.v = sGoodbye

(***************************************************************************)
(* C7: a 503 answer whose body is a JSON mapping holding estimated_time    *)
(* ends the request with the non-error "loading" status carrying that      *)
(* estimated wait; any other 503 ends it with an error, never "loading";   *)
(* in both cases the one call made stays the only one.                     *)
(***************************************************************************)
Got503(r) == Done(r) /\ resp[r].kind = "http" /\ resp[r].status_code = 503
StillLoading(rs) ==
    /\ rs.json_ok
    /\ rs.data.t = "dict"
    /\ \E i \in 1..Len(rs.data.d) : rs.data.d[i].k = sEstimatedTime

C7_LoadingSurfaced ==
    \A r \in Handled :
        Got503(r) =>
            /\ Len(calls[r]) = 1
            /\ IF StillLoading(resp[r])
               THEN /\ result[r].kind = "loading"
                    /\ result[r].status = 200
                    /\ \E i \in 1..Len(resp[r].data.d) :
                          /\ resp[r].data.d[i].k = sEstimatedTime
                          /\ result[r].estimated_time = resp[r].data.d[i].v
               ELSE /\ result[r].kind = "HTTPException"
                    /\ result[r].status >= 400

C7_Witness ==
    \E r \in Handled :
        Got503(r) /\ result[r].kind = "loading" /\ result[r].estimated_time = JNum(20)

(***************************************************************************)
(* C8: under every interleaving of the handlers, the configuration is      *)
(* never modified, a step of one request leaves every other request's      *)
(* state untouched, and a request's calls and outcome are those its own    *)
(* input and the answer to its own call give when it is handled alone.     *)
(***************************************************************************)
HandledAlone(rq, rs) ==
    LET b == BeforePost(HF_TOKEN, MODEL_ID, rq) IN
    IF b.raised
    THEN [calls |-> <<>>, result |-> b.error]
    ELSE [calls |-> <<[model |-> b.model, Authorization |-> b.Authorization,
                       inputs |-> b.inputs]>>,
          result |-> ExceptClauses(TryBody(rs))]

OutcomeIsOwn ==
    \A r \in Handled :
        /\ pc[r] = "awaiting" => calls[r] = HandledAlone(req[r], resp[r]).calls
        /\ Done(r) => /\ calls[r] = HandledAlone(req[r], resp[r]).calls
                      /\ result[r] = HandledAlone(req[r], resp[r]).result

ConfigReadOnly == HF_TOKEN' = HF_TOKEN /\ MODEL_ID' = MODEL_ID

OthersUntouched ==
    \A r \in Handled :
        pc'[r] = pc[r] =>
            /\ req'[r] = req[r]
            /\ calls'[r] = calls[r]
            /\ resp'[r] = resp[r]
            /\ result'[r] = result[r]

C8_RequestsIsolated ==
    /\ []OutcomeIsOwn
    /\ [][ConfigReadOnly]_vars
    /\ [][OthersUntouched]_vars

C8_Witness ==
    /\ Cardinality(Handled) >= 2
    /\ \E r1, r2 \in Handled :
         /\ r1 < r2
         /\ Done(r1) /\ result[r1].kind = "loading"
         /\ Done(r2) /\ result[r2].kind = "output" /\ result[r2].output = sHello

(***************************************************************************)
(* C9: when the token or the model identifier is absent, every request     *)
(* ends in the 500 ConfigurationMissing error, never waits for a backend   *)
(* and makes no outbound call.                                             *)
(***************************************************************************)
C9_ConfigurationMissing ==
    ~ConfigPresent =>
        \A r \in Handled :
            /\ calls[r] = <<>>
            /\ pc[r] # "awaiting"
            /\ Done(r) =>
                 result[r] = IF MODEL_ID = <<>>
                             THEN HTTPException(500, "MODEL_ID is not set on the server")
                             ELSE HTTPException(500, "HF_TOKEN is not set on the server")

C9_Witness ==
    \E r \in Handled :
        /\ Done(r) /\ Truthy(req[r].prompt)
        /\ MODEL_ID # <<>> /\ ~Truthy(HF_TOKEN)
        /\ result[r].status = 500

(***************************************************************************)
(* C10 (as claimed): a request whose non-empty messages all carry an       *)
(* unrecognized role is not rejected: the backend is called with the       *)
(* transcript "Assistant:".                                                *)
(***************************************************************************)
AllUnrecognized(r) ==
    /\ pc[r] # "idle"
    /\ Truthy(req[r].messages)
    /\ \A i \in 1..Len(req[r].messages.v) : req[r].messages.v[i].role \in UnrecognizedRoles

CalledWithCueOnly(r) ==
    /\ Len(calls[r]) = 1
    /\ calls[r][1].inputs = sAssistantCue
    /\ calls[r][1].model = MODEL_ID

C10_NeverRejected == \A r \in Handled : AllUnrecognized(r) => CalledWithCueOnly(r)

(***************************************************************************)
(* C10 (amended): when the model identifier and the token are configured,  *)
(* a request whose non-empty messages all carry an unrecognized role is    *)
(* not rejected: the backend is called once with the transcript            *)
(* "Assistant:", even if a prompt was supplied too, and the outcome is the *)
(* one the backend's answer gives; when one of them is absent the request  *)
(* is rejected with the 500 ConfigurationMissing error and no call.        *)
(***************************************************************************)
C10_CueOnlyTranscriptWhenConfigured ==
    \A r \in Handled :
        AllUnrecognized(r) =>
            IF ConfigPresent
            THEN /\ CalledWithCueOnly(r)
                 /\ Done(r) => /\ resp[r].kind # "none"
                               /\ result[r] # InvalidRequest
            ELSE /\ calls[r] = <<>>
                 /\ result[r] \in ConfigurationMissing

C10_Witness ==
    \E r \in Handled :
        /\ AllUnrecognized(r)
        /\ req[r].prompt = Some(sHi)
        /\ Len(req[r].messages.v) = 2
        /\ CalledWithCueOnly(r)
        /\ result[r].kind = "output"

====
